---------------------------- MODULE Spec2Model ----------------------------
(***************************************************************************)
(* Model of generate-icons.py: the batch downloader download_material_icons *)
(* with its helpers download_and_resize_icon, create_placeholder_icon and   *)
(* generate_material_icon_url, and the script's __main__ sequence.          *)
(*                                                                          *)
(* Strings the code inspects (icon names, file names) are sequences of      *)
(* one-character strings, so that `in`, replace, upper and slicing are      *)
(* computed as Python computes them.  The file system is a function from    *)
(* the paths that exist to the file stored there.  The network, the SVG     *)
(* converter and the outcome of each write are inputs of the step that      *)
(* uses them.                                                               *)
(***************************************************************************)
EXTENDS Integers, Sequences, FiniteSets, TLC

VARIABLES
  fs,            \* output directory: existing path -> file
  pc,            \* "idle" | "loop" | "retry" | "returned" | "raised"
  exc,           \* exception that left download_material_icons, or "none"
  icon_list,     \* argument of the current (or last) call
  style,         \* argument of the current (or last) call
  size,          \* argument of the current (or last) call
  i,             \* requests of icon_list fully processed by the for loop
  success_count, \* local of download_material_icons
  attempt,       \* index of the next iteration of the retry loop
  printed,       \* lines printed by the last step
  requested,     \* URLs requested from the network by the last step
  ret,           \* value of the last download_and_resize_icon call
  batch,         \* position in __main__ (0 outside the script)
  rerun,         \* history: this call repeats the completed call before it
  net_ok,        \* history: some fetch of this call got a 2xx response
  fetched        \* history: paths a fetch was ever issued for

vars == << fs, pc, exc, icon_list, style, size, i, success_count, attempt,
           printed, requested, ret, batch, rerun, net_ok, fetched >>

---------------------------------------------------------------------------
(* Bounds of the model.                                                    *)

\* longest icon_list a caller passes
MaxLen == 2
\* most tokens concatenated into a name given to create_placeholder_icon
MaxTokens == 2

---------------------------------------------------------------------------
(* Python string operations on sequences of characters.                    *)

LowerChars ==
  << "a","b","c","d","e","f","g","h","i","j","k","l","m",
     "n","o","p","q","r","s","t","u","v","w","x","y","z" >>

UpperChars ==
  << "A","B","C","D","E","F","G","H","I","J","K","L","M",
     "N","O","P","Q","R","S","T","U","V","W","X","Y","Z" >>

DigitChars == << "0","1","2","3","4","5","6","7","8","9" >>

\* str.upper on one character
UpperChar(c) ==
  IF \E k \in 1..Len(LowerChars) : LowerChars[k] = c
  THEN UpperChars[CHOOSE k \in 1..Len(LowerChars) : LowerChars[k] = c]
  ELSE c

\* s.upper()
Upper(s) == [k \in 1..Len(s) |-> UpperChar(s[k])]

\* s[:n]
Prefix(s, n) == SubSeq(s, 1, IF n < Len(s) THEN n ELSE Len(s))

\* s.startswith(p)
StartsWith(s, p) == Len(p) <= Len(s) /\ SubSeq(s, 1, Len(p)) = p

\* `k in s` for strings: k occurs in s as a contiguous substring
Contains(s, k) ==
  \E j \in 1..(Len(s) - Len(k) + 1) : SubSeq(s, j, j + Len(k) - 1) = k

\* s.replace(old, new): every non-overlapping occurrence, left to right
RECURSIVE Replace(_, _, _)
Replace(s, old, new) ==
  IF s = << >> THEN << >>
  ELSE IF StartsWith(s, old)
       THEN new \o Replace(SubSeq(s, Len(old) + 1, Len(s)), old, new)
       ELSE << Head(s) >> \o Replace(Tail(s), old, new)

\* str(n) for a natural number, as f-strings format size[0] and size[1]
RECURSIVE StrInt(_)
StrInt(n) ==
  IF n < 10 THEN << DigitChars[n + 1] >>
  ELSE StrInt(n \div 10) \o << DigitChars[(n % 10) + 1] >>

---------------------------------------------------------------------------
(* The icon lists of the script.                                           *)

essential_icons ==
  << <<"h","o","m","e">>,
     <<"s","e","a","r","c","h">>,
     <<"m","e","n","u">>,
     <<"c","l","o","s","e">>,
     <<"a","d","d">>,
     <<"r","e","m","o","v","e">>,
     <<"e","d","i","t">>,
     <<"d","e","l","e","t","e">>,
     <<"s","a","v","e">>,
     <<"s","h","a","r","e">>,
     <<"f","a","v","o","r","i","t","e">>,
     <<"s","t","a","r">>,
     <<"s","e","t","t","i","n","g","s">>,
     <<"h","e","l","p">>,
     <<"i","n","f","o">>,
     <<"c","h","e","c","k">>,
     <<"c","a","n","c","e","l">>,
     <<"a","r","r","o","w","_","b","a","c","k">>,
     <<"a","r","r","o","w","_","f","o","r","w","a","r","d">>,
     <<"r","e","f","r","e","s","h">> >>

material_icons ==
  << <<"h","o","m","e">>,
     <<"s","e","a","r","c","h">>,
     <<"m","e","n","u">>,
     <<"c","l","o","s","e">>,
     <<"a","d","d">>,
     <<"r","e","m","o","v","e">>,
     <<"e","d","i","t">>,
     <<"d","e","l","e","t","e">>,
     <<"s","a","v","e">>,
     <<"s","h","a","r","e">>,
     <<"f","a","v","o","r","i","t","e">>,
     <<"s","t","a","r">>,
     <<"b","o","o","k","m","a","r","k">>,
     <<"s","e","t","t","i","n","g","s">>,
     <<"h","e","l","p">>,
     <<"i","n","f","o">>,
     <<"w","a","r","n","i","n","g">>,
     <<"e","r","r","o","r">>,
     <<"c","h","e","c","k">>,
     <<"c","a","n","c","e","l">>,
     <<"a","r","r","o","w","_","b","a","c","k">>,
     <<"a","r","r","o","w","_","f","o","r","w","a","r","d">>,
     <<"a","r","r","o","w","_","u","p","w","a","r","d">>,
     <<"a","r","r","o","w","_","d","o","w","n","w","a","r","d">>,
     <<"r","e","f","r","e","s","h">>,
     <<"s","y","n","c">>,
     <<"d","o","w","n","l","o","a","d">>,
     <<"u","p","l","o","a","d">>,
     <<"c","l","o","u","d">>,
     <<"f","o","l","d","e","r">>,
     <<"f","i","l","e","_","c","o","p","y">>,
     <<"p","r","i","n","t">>,
     <<"e","m","a","i","l">>,
     <<"p","h","o","n","e">>,
     <<"l","o","c","a","t","i","o","n","_","o","n">>,
     <<"p","e","r","s","o","n">>,
     <<"g","r","o","u","p">>,
     <<"a","c","c","o","u","n","t","_","c","i","r","c","l","e">>,
     <<"l","o","c","k">>,
     <<"v","i","s","i","b","i","l","i","t","y">>,
     <<"v","i","s","i","b","i","l","i","t","y","_","o","f","f">>,
     <<"t","h","u","m","b","_","u","p">>,
     <<"t","h","u","m","b","_","d","o","w","n">>,
     <<"c","h","a","t">>,
     <<"c","o","m","m","e","n","t">>,
     <<"n","o","t","i","f","i","c","a","t","i","o","n","s">>,
     <<"a","l","a","r","m">>,
     <<"s","c","h","e","d","u","l","e">>,
     <<"t","o","d","a","y">>,
     <<"c","a","l","e","n","d","a","r","_","m","o","n","t","h">>,
     <<"e","v","e","n","t">>,
     <<"s","h","o","p","p","i","n","g","_","c","a","r","t">>,
     <<"p","a","y","m","e","n","t">>,
     <<"c","r","e","d","i","t","_","c","a","r","d">>,
     <<"m","o","n","e","t","i","z","a","t","i","o","n","_","o","n">>,
     <<"t","r","e","n","d","i","n","g","_","u","p">>,
     <<"t","r","e","n","d","i","n","g","_","d","o","w","n">>,
     <<"a","n","a","l","y","t","i","c","s">>,
     <<"d","a","s","h","b","o","a","r","d">>,
     <<"b","a","r","_","c","h","a","r","t">>,
     <<"p","i","e","_","c","h","a","r","t">>,
     <<"t","a","b","l","e","_","c","h","a","r","t">>,
     <<"m","a","p">>,
     <<"p","l","a","c","e">>,
     <<"d","i","r","e","c","t","i","o","n","s">>,
     <<"l","o","c","a","l","_","s","h","i","p","p","i","n","g">>,
     <<"f","l","i","g","h","t">>,
     <<"h","o","t","e","l">>,
     <<"r","e","s","t","a","u","r","a","n","t">>,
     <<"l","o","c","a","l","_","c","a","f","e">>,
     <<"s","h","o","p","p","i","n","g","_","b","a","g">>,
     <<"s","t","o","r","e">>,
     <<"b","u","s","i","n","e","s","s">>,
     <<"w","o","r","k">>,
     <<"s","c","h","o","o","l">>,
     <<"l","i","b","r","a","r","y","_","b","o","o","k","s">>,
     <<"p","l","a","y","_","a","r","r","o","w">>,
     <<"p","a","u","s","e">>,
     <<"s","t","o","p">>,
     <<"s","k","i","p","_","n","e","x","t">>,
     <<"s","k","i","p","_","p","r","e","v","i","o","u","s">>,
     <<"v","o","l","u","m","e","_","u","p">>,
     <<"v","o","l","u","m","e","_","d","o","w","n">>,
     <<"v","o","l","u","m","e","_","o","f","f">>,
     <<"m","i","c">>,
     <<"m","i","c","_","o","f","f">>,
     <<"c","a","m","e","r","a">>,
     <<"p","h","o","t","o","_","c","a","m","e","r","a">>,
     <<"v","i","d","e","o","_","c","a","l","l">>,
     <<"c","a","l","l">>,
     <<"c","a","l","l","_","e","n","d">>,
     <<"m","e","s","s","a","g","e">>,
     <<"c","h","a","t","_","b","u","b","b","l","e">>,
     <<"f","o","r","u","m">> >>

filled_icons ==
  << <<"h","o","m","e">>,
     <<"s","e","a","r","c","h">>,
     <<"m","e","n","u">>,
     <<"s","t","a","r">>,
     <<"f","a","v","o","r","i","t","e">> >>

---------------------------------------------------------------------------
(* Program constants.                                                      *)

\* default of the parameter max_retries
max_retries == 2

\* default of the parameter size
default_size == << 40, 40 >>

\* default of the parameter output_dir
output_dir == "public/icons"

\* default of the parameter style
default_style == "outlined"

\* the literal '_40x40.png' that download_and_resize_icon strips
suffix_40 == << "_","4","0","x","4","0",".","p","n","g" >>

kw_home == << "h","o","m","e" >>
kw_search == << "s","e","a","r","c","h" >>
kw_menu == << "m","e","n","u" >>
kw_star == << "s","t","a","r" >>

\* style_map of generate_material_icon_url, in the order it is written
style_keys == << "outlined", "filled", "rounded", "sharp" >>

style_map ==
  [ outlined |-> "materialsymbolsoutlined",
    filled   |-> "materialsymbolsfilled",
    rounded  |-> "materialsymbolsrounded",
    sharp    |-> "materialsymbolssharp" ]

---------------------------------------------------------------------------
(* Files and writes.                                                       *)

\* a file whose write did not finish
PartialFile ==
  [ complete |-> FALSE, origin |-> "none", mode |-> "none",
    size |-> << 0, 0 >>, ops |-> << >> ]

\* How a call of img.save(output_path, 'PNG') can end.  The image is written
\* straight to its final path: "ok" leaves the whole file; "fail_clean" raises
\* OSError with nothing written; "fail_partial" raises OSError after part of
\* the file was written; "interrupt" is the process being stopped in the
\* middle of the write (KeyboardInterrupt, not an Exception).
SaveOutcomes == { "ok", "fail_clean", "fail_partial", "interrupt" }

\* img.save(output_path, 'PNG') on directory dir with the given outcome
Save(dir, output_path, img, outcome) ==
  CASE outcome = "ok" ->
         [ fs  |-> [ p \in DOMAIN dir \cup { output_path } |->
                       IF p = output_path THEN img ELSE dir[p] ],
           exc |-> "none" ]
    [] outcome = "fail_clean" ->
         [ fs |-> dir, exc |-> "OSError" ]
    [] outcome = "fail_partial" ->
         [ fs  |-> [ p \in DOMAIN dir \cup { output_path } |->
                       IF p = output_path THEN PartialFile ELSE dir[p] ],
           exc |-> "OSError" ]
    [] outcome = "interrupt" ->
         [ fs  |-> [ p \in DOMAIN dir \cup { output_path } |->
                       IF p = output_path THEN PartialFile ELSE dir[p] ],
           exc |-> "KeyboardInterrupt" ]

\* faulty variant: the check looks at something that always exists
exists_always(dir, output_path) == TRUE

\* faulty variant: the check never finds the file
exists_never(dir, output_path) == FALSE

\* os.path.exists(output_path)
exists(dir, output_path) == output_path \in DOMAIN dir

\* the f-string f"{icon_name}_{size[0]}x{size[1]}.png"
file_name(icon_name, sz) ==
  icon_name \o << "_" >> \o StrInt(sz[1]) \o << "x" >> \o StrInt(sz[2])
            \o << ".","p","n","g" >>

\* faulty variant: the file name carries the style of the call
output_path_of_Styled(dir_name, icon_name, sz) ==
  [ dir |-> dir_name, base |-> << style, "_" >> \o file_name(icon_name, sz) ]

\* os.path.join(output_dir, f"{icon_name}_{size[0]}x{size[1]}.png")
output_path_of(dir_name, icon_name, sz) ==
  [ dir |-> dir_name, base |-> file_name(icon_name, sz) ]

\* the part of s after its last "/"
RECURSIVE AfterLastSlash(_)
AfterLastSlash(s) ==
  IF \E k \in 1..Len(s) : s[k] = "/"
  THEN AfterLastSlash(
         SubSeq(s, (CHOOSE k \in 1..Len(s) : s[k] = "/" /\
                      \A j \in 1..(k - 1) : s[j] # "/") + 1, Len(s)))
  ELSE s

\* os.path.basename(output_path)
basename(output_path) == AfterLastSlash(output_path.base)

---------------------------------------------------------------------------
(* create_placeholder_icon                                                 *)

DrawOp(name) == [ op |-> name, text |-> << >> ]

\* faulty variant: 'search' is tested before 'home', 'star' before 'menu'
PlaceholderOps_Reordered(icon_name, text_ok) ==
  IF Contains(icon_name, kw_search)
  THEN << DrawOp("ellipse"), DrawOp("line") >>
  ELSE IF Contains(icon_name, kw_home)
  THEN << DrawOp("polygon"), DrawOp("rectangle") >>
  ELSE IF Contains(icon_name, kw_star)
  THEN << >>
  ELSE IF Contains(icon_name, kw_menu)
  THEN << DrawOp("line"), DrawOp("line"), DrawOp("line") >>
  ELSE IF text_ok
  THEN << [ op |-> "text", text |-> Upper(Prefix(icon_name, 3)) ] >>
  ELSE << DrawOp("rectangle_outline") >>

\* the drawing calls made on the steel-blue image, in order; text_ok says
\* whether draw.text succeeds
PlaceholderOps(icon_name, text_ok) ==
  IF Contains(icon_name, kw_home)
  THEN << DrawOp("polygon"), DrawOp("rectangle") >>
  ELSE IF Contains(icon_name, kw_search)
  THEN << DrawOp("ellipse"), DrawOp("line") >>
  ELSE IF Contains(icon_name, kw_menu)
  THEN << DrawOp("line"), DrawOp("line"), DrawOp("line") >>
  ELSE IF Contains(icon_name, kw_star)
  THEN << >>
  ELSE IF text_ok
  THEN << [ op |-> "text", text |-> Upper(Prefix(icon_name, 3)) ] >>
  ELSE << DrawOp("rectangle_outline") >>

\* faulty variant: create_placeholder_icon ends with return False
PlaceholderReturn_False == FALSE

\* the value create_placeholder_icon returns
PlaceholderReturn == TRUE

\* create_placeholder_icon(icon_name, output_path, size) on directory dir;
\* text_ok and outcome are what draw.text and img.save do
create_placeholder_icon(icon_name, output_path, sz, text_ok, outcome, dir) ==
  LET img == [ complete |-> TRUE, origin |-> "placeholder", mode |-> "RGBA",
               size |-> sz, ops |-> PlaceholderOps(icon_name, text_ok) ]
      w   == Save(dir, output_path, img, outcome)
  IN  IF w.exc = "none"
      THEN [ fs |-> w.fs, exc |-> "none", ret |-> PlaceholderReturn,
             printed |-> << "placeholder_saved" >> ]
      ELSE [ fs |-> w.fs, exc |-> w.exc, ret |-> FALSE, printed |-> << >> ]

---------------------------------------------------------------------------
(* generate_material_icon_url                                              *)

\* style_map.get(style, 'materialsymbolsoutlined')
style_path_of(st) ==
  IF st \in DOMAIN style_map THEN style_map[st] ELSE "materialsymbolsoutlined"

\* faulty variant: the style argument is ignored
generate_material_icon_url_NoStyle(icon_name, st) ==
  [ base       |-> "https://fonts.gstatic.com/s/i/short-term/release",
    style_path |-> "materialsymbolsoutlined",
    icon_name  |-> icon_name,
    variant    |-> "default",
    size       |-> "48px",
    ext        |-> "svg" ]

\* f"{base_url}/{style_path}/{icon_name}/default/{size}.svg"
generate_material_icon_url(icon_name, st) ==
  [ base       |-> "https://fonts.gstatic.com/s/i/short-term/release",
    style_path |-> style_path_of(st),
    icon_name  |-> icon_name,
    variant    |-> "default",
    size       |-> "48px",
    ext        |-> "svg" ]

\* url.endswith('.svg')
is_svg(url) == url.ext = "svg"

---------------------------------------------------------------------------
(* download_and_resize_icon                                                *)

\* What the environment does during one call: the HTTP exchange, the
\* decoding of the body, draw.text, and the writes: save_img is img.save of
\* the downloaded image, save_ph that of the first placeholder the call
\* makes, save_ph2 that of a second one.
FetchOutcomes == { "ok", "http_error", "transport_error" }
ConvertOutcomes == { "ok", "import_error", "error" }

\* the outcomes a call can meet, each combination once: a field the call
\* does not reach keeps its first value
Envs ==
  { e \in [ fetch : FetchOutcomes, convert : ConvertOutcomes,
            save_img : SaveOutcomes, text_ok : BOOLEAN,
            save_ph : SaveOutcomes, save_ph2 : SaveOutcomes ] :
      /\ e.fetch # "ok" => e.convert = "ok"
      /\ (e.fetch # "ok" \/ e.convert # "ok") => e.save_img = "ok"
      /\ (e.fetch = "ok" /\ e.convert = "ok"
            /\ e.save_img \in { "ok", "interrupt" })
           => (e.text_ok /\ e.save_ph = "ok")
      /\ (e.fetch # "ok" \/ e.convert = "ok"
            \/ e.save_ph \in { "ok", "interrupt" })
           => e.save_ph2 = "ok" }

\* the value download_and_resize_icon returns after a successful save
DownloadReturn == TRUE

\* download_and_resize_icon(url, output_path, size) on directory dir
download_and_resize_icon(url, output_path, sz, env, dir) ==
  LET icon_name == Replace(basename(output_path), suffix_40, << >>)
      \* lines 95-100: a handler of the outer try calls the placeholder
      outer(lines, outcome, d) ==
        LET p == create_placeholder_icon(icon_name, output_path, sz,
                                         env.text_ok, outcome, d)
        IN  [ fs |-> p.fs, exc |-> p.exc, ret |-> p.ret,
              printed |-> lines \o p.printed, requested |-> << url >> ]
      \* lines 76-81: a handler of the inner try calls the placeholder,
      \* inside the outer try: an OSError of that call is caught at line 98
      \* and the placeholder is made once more
      inner(line) ==
        LET p == create_placeholder_icon(icon_name, output_path, sz,
                                         env.text_ok, env.save_ph, dir)
        IN  IF p.exc = "OSError"
            THEN outer(<< line, "warn_processing" >>, env.save_ph2, p.fs)
            ELSE [ fs |-> p.fs, exc |-> p.exc, ret |-> p.ret,
                   printed |-> << line >> \o p.printed,
                   requested |-> << url >> ]
  IN  IF env.fetch # "ok"
      THEN \* requests.get or raise_for_status raised a RequestException
           outer(<< "warn_network" >>, env.save_ph, dir)
      ELSE IF is_svg(url) /\ env.convert = "import_error"
      THEN inner("warn_cairosvg")
      ELSE IF is_svg(url) /\ env.convert = "error"
      THEN inner("warn_svg")
      ELSE IF env.convert # "ok"
      THEN \* Image.open or resize raised: the outer except Exception
           outer(<< "warn_processing" >>, env.save_ph, dir)
      ELSE LET img == [ complete |-> TRUE, origin |-> "download",
                        mode |-> "RGBA", size |-> sz, ops |-> << >> ]
               w   == Save(dir, output_path, img, env.save_img)
           IN  IF w.exc = "none"
               THEN [ fs |-> w.fs, exc |-> "none", ret |-> DownloadReturn,
                      printed |-> << "saved" >>, requested |-> << url >> ]
               ELSE IF w.exc = "OSError"
               THEN \* img.save raised: the outer except Exception
                    outer(<< "warn_processing" >>, env.save_ph, w.fs)
               ELSE [ fs |-> w.fs, exc |-> w.exc, ret |-> FALSE,
                      printed |-> << >>, requested |-> << url >> ]

---------------------------------------------------------------------------
(* download_material_icons                                                 *)

\* the icon names a caller of download_material_icons draws its list from
Universe ==
  { <<"h","o","m","e">>, <<"c","l","o","s","e">> }

\* the icon names the model keeps of the script's three lists: one that is
\* in all three, one in the first two only, one in the second only
MainUniverse ==
  { <<"h","o","m","e">>, <<"c","l","o","s","e">>,
    <<"b","o","o","k","m","a","r","k">> }

\* sizes a caller passes
Sizes == { default_size, << 24, 24 >> }

\* styles a caller passes: the keys of style_map and one that is no key
StyleArgs == { "outlined", "filled", "rounded", "sharp", "twotone" }

\* icon lists a caller passes
IconLists == UNION { [ 1..n -> Universe ] : n \in 0..MaxLen }

\* the request the for loop is at
cur_name == icon_list[i + 1]
cur_url == generate_material_icon_url(cur_name, style)
cur_path == output_path_of(output_dir, cur_name, size)

\* Lines 115-126: os.makedirs (taken to succeed), the two counters, the
\* header lines.
Begin(l, st, b) ==
  /\ icon_list' = l
  /\ style' = st
  /\ batch' = b
  /\ success_count' = 0
  /\ i' = 0
  /\ attempt' = 0
  /\ pc' = "loop"
  /\ exc' = "none"
  /\ printed' = << "header" >>
  /\ requested' = << >>
  /\ ret' = "none"
  /\ rerun' = (pc = "returned" /\ l = icon_list)
  /\ net_ok' = FALSE
  /\ UNCHANGED << fs, size, fetched >>

\* a caller calls download_material_icons(l, output_dir, size, st); a call
\* after one that raised is a call of a new process
Call ==
  /\ pc \in { "idle", "returned", "raised" }
  /\ \E l \in IconLists, st \in StyleArgs : Begin(l, st, 0)

\* Lines 128-138: the file exists, the request counts as a success.
Skip ==
  /\ pc = "loop"
  /\ i < Len(icon_list)
  /\ exists(fs, cur_path)
  /\ success_count' = success_count + 1
  /\ i' = i + 1
  /\ printed' = << "progress", "exists" >>
  /\ requested' = << >>
  /\ ret' = "none"
  /\ UNCHANGED << fs, pc, exc, icon_list, style, size, attempt, batch,
                  rerun, net_ok, fetched >>

\* faulty variant: the loop counts a success and goes on without break
RetryStep_NoBreak(value, att) ==
  IF att < max_retries
  THEN [ pc |-> "retry", attempt |-> att + 1,
         inc |-> IF value THEN 1 ELSE 0, adv |-> 0, printed |-> << >> ]
  ELSE [ pc |-> "loop", attempt |-> 0,
         inc |-> IF value THEN 1 ELSE 0, adv |-> 1, printed |-> << >> ]

\* Lines 147-156: what the retry loop does with the value a call returned,
\* when the loop variable is att.
RetryStep(value, att) ==
  IF value
  THEN [ pc |-> "loop", attempt |-> 0, inc |-> 1, adv |-> 1,
         printed |-> << >> ]
  ELSE IF att < max_retries
  THEN [ pc |-> "retry", attempt |-> att + 1, inc |-> 0, adv |-> 0,
         printed |-> << "failed" >> ]
  ELSE [ pc |-> "loop", attempt |-> 0, inc |-> 0, adv |-> 1,
         printed |-> << "final_failure" >> ]

\* Lines 128-133 and 140-160: one iteration of the retry loop, the first one
\* entered when the file does not exist.
Attempt ==
  /\ pc \in { "loop", "retry" }
  /\ i < Len(icon_list)
  /\ pc = "loop" => ~exists(fs, cur_path)
  /\ \E env \in Envs :
       LET r   == download_and_resize_icon(cur_url, cur_path, size, env, fs)
           nx  == RetryStep(r.ret, attempt)
           pre == IF attempt > 0 THEN << "retry" >> ELSE << "progress" >>
       IN  /\ fs' = r.fs
           /\ requested' = r.requested
           /\ fetched' = fetched \cup { cur_path }
           /\ net_ok' = (net_ok \/ env.fetch = "ok")
           /\ IF r.exc # "none"
              THEN /\ pc' = "raised"
                   /\ exc' = r.exc
                   /\ ret' = "raise"
                   /\ printed' = pre \o r.printed
                   /\ UNCHANGED << i, success_count, attempt >>
              ELSE /\ pc' = nx.pc
                   /\ exc' = "none"
                   /\ ret' = IF r.ret THEN "True" ELSE "False"
                   /\ printed' = pre \o r.printed \o nx.printed
                   /\ i' = i + nx.adv
                   /\ success_count' = success_count + nx.inc
                   /\ attempt' = nx.attempt
  /\ UNCHANGED << icon_list, style, size, batch, rerun >>

\* Lines 162-168: the summary divides by total_count; the location of the
\* icons is printed when success_count > 0.
Return ==
  /\ pc = "loop"
  /\ i = Len(icon_list)
  /\ IF Len(icon_list) = 0
     THEN /\ pc' = "raised"
          /\ exc' = "ZeroDivisionError"
          /\ printed' = << "rule" >>
     ELSE /\ pc' = "returned"
          /\ exc' = "none"
          /\ printed' = << "rule", "summary" >>
                        \o (IF success_count > 0 THEN << "location" >>
                            ELSE << >>)
  /\ requested' = << >>
  /\ ret' = "none"
  /\ UNCHANGED << fs, icon_list, style, size, i, success_count, attempt,
                  batch, rerun, net_ok, fetched >>

\* the names of l the model keeps
InMainUniverse(n) == n \in MainUniverse
Restrict(l) == SelectSeq(l, InMainUniverse)

\* Lines 196-199: the script starts and calls
\* download_material_icons(essential_icons).  A script can start when none
\* runs: at first, after one ended, after one died of an exception.
MainStart ==
  /\ \/ pc = "idle"
     \/ pc = "raised"
     \/ pc = "returned" /\ batch = 3
  /\ Begin(Restrict(essential_icons), default_style, 1)

\* Lines 209-214: download_material_icons(material_icons), then
\* download_material_icons([...], style='filled').
MainNext ==
  /\ pc = "returned"
  /\ batch \in { 1, 2 }
  /\ IF batch = 1
     THEN Begin(Restrict(material_icons), default_style, 2)
     ELSE Begin(Restrict(filled_icons), "filled", 3)

\* names given to create_placeholder_icon directly: up to MaxTokens of these
\* pieces, concatenated
GlyphTokens ==
  { <<"h","o","m","e">>, <<"H","o","m","e">>, <<"H","O","M","E">>,
    <<"s","e","a","r","c","h">>, <<"S","e","a","r","c","h">>,
    <<"m","e","n","u">>, <<"M","E","N","U">>,
    <<"s","t","a","r">>, <<"S","t","a","r">>,
    <<"_">>, <<"a","d">> }

RECURSIVE Concat(_)
Concat(ts) == IF ts = << >> THEN << >> ELSE Head(ts) \o Concat(Tail(ts))

GlyphNames ==
  { Concat(ts) : ts \in UNION { [ 1..n -> GlyphTokens ] : n \in 1..MaxTokens } }

\* create_placeholder_icon(icon_name, output_path, size) called on its own
PlaceholderCall ==
  /\ pc = "glyph"
  /\ \E t \in BOOLEAN, s \in SaveOutcomes :
       LET r == create_placeholder_icon(
                  icon_list[1],
                  output_path_of(output_dir, icon_list[1], size), size,
                  t, s, fs)
       IN  /\ fs' = r.fs
           /\ pc' = IF r.exc = "none" THEN "returned" ELSE "raised"
           /\ exc' = r.exc
           /\ ret' = IF r.exc # "none" THEN "raise"
                     ELSE IF r.ret THEN "True" ELSE "False"
           /\ printed' = r.printed
  /\ UNCHANGED << icon_list, style, size, i, success_count, attempt,
                  requested, batch, rerun, net_ok, fetched >>

Init ==
  /\ fs = << >>
  /\ pc = "idle"
  /\ exc = "none"
  /\ icon_list = << >>
  /\ style = default_style
  /\ size \in Sizes
  /\ i = 0
  /\ success_count = 0
  /\ attempt = 0
  /\ printed = << >>
  /\ requested = << >>
  /\ ret = "none"
  /\ batch = 0
  /\ rerun = FALSE
  /\ net_ok = FALSE
  /\ fetched = { }

\* callers that pass any list and style
Next == Call \/ Skip \/ Attempt \/ Return

Spec == Init /\ [][Next]_vars

\* the script: its three calls, with the default size
InitMain == Init /\ size = default_size

NextMain == MainStart \/ MainNext \/ Skip \/ Attempt \/ Return

SpecMain == InitMain /\ [][NextMain]_vars

\* create_placeholder_icon applied to one name
InitGlyph ==
  /\ fs = << >>
  /\ pc = "glyph"
  /\ exc = "none"
  /\ icon_list \in { << n >> : n \in GlyphNames }
  /\ style = default_style
  /\ size \in Sizes
  /\ i = 0
  /\ success_count = 0
  /\ attempt = 0
  /\ printed = << >>
  /\ requested = << >>
  /\ ret = "none"
  /\ batch = 0
  /\ rerun = FALSE
  /\ net_ok = FALSE
  /\ fetched = { }

NextGlyph == PlaceholderCall

SpecGlyph == InitGlyph /\ [][NextGlyph]_vars

---------------------------------------------------------------------------
(* The claims.  What a claim says of paths and URLs is written out here,   *)
(* not taken from the operators above.                                     *)

\* the elements of a sequence
Range(s) == { s[k] : k \in DOMAIN s }

\* a character, and a string, with letter case ignored
LowerChar(c) ==
  IF \E k \in 1..Len(UpperChars) : UpperChars[k] = c
  THEN LowerChars[CHOOSE k \in 1..Len(UpperChars) : UpperChars[k] = c]
  ELSE c

Lower(s) == [k \in 1..Len(s) |-> LowerChar(s[k])]

ClaimSide(k) == IF k = 40 THEN << "4","0" >> ELSE << "2","4" >>

\* <output_dir>/<icon_name>_<width>x<height>.png
ClaimPath(n) ==
  [ dir  |-> "public/icons",
    base |-> n \o << "_" >> \o ClaimSide(size[1]) \o << "x" >>
               \o ClaimSide(size[2]) \o << ".","p","n","g" >> ]

ClaimStylePath(st) ==
  CASE st = "filled"  -> "materialsymbolsfilled"
    [] st = "rounded" -> "materialsymbolsrounded"
    [] st = "sharp"   -> "materialsymbolssharp"
    [] OTHER          -> "materialsymbolsoutlined"

\* the one URL of a request
ClaimUrl(n, st) ==
  [ base       |-> "https://fonts.gstatic.com/s/i/short-term/release",
    style_path |-> ClaimStylePath(st),
    icon_name  |-> n,
    variant    |-> "default",
    size       |-> "48px",
    ext        |-> "svg" ]

Warnings == { "warn_network", "warn_cairosvg", "warn_svg", "warn_processing" }

\* C1: when download_material_icons returns, whatever the fetches, the
\* conversions and the writes did, every name of icon_list has exactly one
\* file, at <output_dir>/<icon_name>_<width>x<height>.png; no request's path
\* is absent.
C1_OneFilePerName ==
  pc = "returned" =>
    \A k \in 1..Len(icon_list) :
      /\ ClaimPath(icon_list[k]) \in DOMAIN fs
      /\ Cardinality({ p \in DOMAIN fs :
                         StartsWith(p.base, icon_list[k] \o << "_" >>) }) = 1

\* a returned call of two different names, one downloaded, one a placeholder
C1_Witness ==
  /\ pc = "returned"
  /\ Len(icon_list) = 2
  /\ icon_list[1] # icon_list[2]
  /\ ClaimPath(icon_list[1]) \in DOMAIN fs
  /\ ClaimPath(icon_list[2]) \in DOMAIN fs
  /\ fs[ClaimPath(icon_list[1])].origin = "download"
  /\ fs[ClaimPath(icon_list[2])].origin = "placeholder"

\* C2: a call that repeats the completed call before it (same list, same
\* directory and size) issues no fetch, changes no file, does not raise, and
\* ends with every request counted as a success.
C2_Idempotent ==
  /\ [][rerun' => (fs' = fs /\ requested' = << >> /\ pc' # "raised")]_vars
  /\ []((rerun /\ pc = "returned") => success_count = Len(icon_list))

\* a repeated call of a list of two names has returned
C2_Witness ==
  /\ rerun
  /\ pc = "returned"
  /\ Len(icon_list) = 2
  /\ success_count = 2
  /\ printed = << "rule", "summary", "location" >>

\* C3: in a call all of whose fetches failed, no exception escapes
\* download_material_icons: the placeholder is written instead.
C3_NoEscapeOffline ==
  ~net_ok => exc # "OSError"

\* C4: a failed write never ends the batch loop while names remain to be
\* processed.
C4_WriteFailureNotFatal ==
  ~(pc = "raised" /\ exc = "OSError" /\ i + 1 < Len(icon_list))

\* C5: every file visible in the output directory is completely written, and
\* the existing-file check never accepts an incomplete file.
C5_NoPartialFile ==
  /\ \A p \in DOMAIN fs : fs[p].complete
  /\ (printed = << "progress", "exists" >>)
       => fs[ClaimPath(icon_list[i])].complete

\* C6 as claimed: the placeholder is synthesized only after every candidate
\* of the ordered candidate list (the style variants of style_map, in its
\* order) has been requested.
C6_AllCandidatesTried ==
  "placeholder_saved" \in Range(printed) =>
    \A k \in 1..Len(style_keys) :
      \E u \in Range(requested) : u.style_path = style_map[style_keys[k]]

\* C6, amended: a request whose file does not exist issues exactly one
\* fetch, to the one URL made of its name and the call's style; a request
\* whose file exists issues none; a failed fetch does not abort the request
\* but leads to the placeholder, and the placeholder is written only after
\* that fetch, or the decoding or saving of its response, has failed.
C6_SingleCandidate ==
  [][ /\ ret' = "none" => requested' = << >>
      /\ ret' # "none" =>
           /\ ClaimPath(cur_name) \notin DOMAIN fs
           /\ requested' = << ClaimUrl(cur_name, style) >>
           /\ "placeholder_saved" \in Range(printed')
                => /\ Range(printed') \cap Warnings # { }
                   /\ fs'[ClaimPath(cur_name)].origin = "placeholder"
           /\ "warn_network" \in Range(printed')
                => \/ "placeholder_saved" \in Range(printed')
                   \/ exc' \in { "OSError", "KeyboardInterrupt" } ]_vars

\* a fetch for the 'filled' variant failed and the placeholder was written
C6_Witness ==
  /\ "warn_network" \in Range(printed)
  /\ "placeholder_saved" \in Range(printed)
  /\ Len(requested) = 1
  /\ style = "filled"
  /\ ret = "True"

\* C7: a request gets at most max_retries + 1 calls of
\* download_and_resize_icon; a call with attempt > 0 follows a call for the
\* same request that returned a false value without writing the placeholder;
\* after a call that reported success the loop goes on to the next request.
C7_RetryLoop ==
  /\ [](attempt \in 0..max_retries)
  /\ [](pc = "retry" <=> attempt > 0)
  /\ [](pc = "retry" =>
          (ret = "False" /\ "placeholder_saved" \notin Range(printed)))
  /\ [][ret' # "none" => attempt <= max_retries]_vars
  /\ [][ret' = "True" =>
          (pc' = "loop" /\ attempt' = 0 /\ i' = i + 1)]_vars

\* a call reported success and the loop moved on to the second request
C7_Witness ==
  /\ ret = "True"
  /\ pc = "loop"
  /\ i = 1
  /\ Len(icon_list) = 2
  /\ attempt = 0

\* C9: success_count is the number of requests processed so far, whether
\* skipped, downloaded or replaced by a placeholder; a call that reaches the
\* summary has success_count = total_count; no retry iteration and no
\* 'final failure' line is ever reached.
C9_TallyCountsEverything ==
  /\ pc \in { "loop", "retry", "returned", "raised" } => success_count = i
  /\ success_count \in 0..Len(icon_list)
  /\ pc = "returned" => success_count = Len(icon_list)
  /\ (pc = "loop" /\ i = Len(icon_list)) => success_count = Len(icon_list)
  /\ attempt = 0
  /\ pc # "retry"
  /\ ret # "False"
  /\ "final_failure" \notin Range(printed)
  /\ "retry" \notin Range(printed)
  /\ "failed" \notin Range(printed)

\* a returned call counted two successes, one of them a placeholder
C9_Witness ==
  /\ pc = "returned"
  /\ success_count = 2
  /\ Len(icon_list) = 2
  /\ \E p \in DOMAIN fs : fs[p].origin = "placeholder"
  /\ \E p \in DOMAIN fs : fs[p].origin = "download"

GlyphKind(ops) ==
  IF ops = << DrawOp("polygon"), DrawOp("rectangle") >> THEN "home"
  ELSE IF ops = << DrawOp("ellipse"), DrawOp("line") >> THEN "search"
  ELSE IF ops = << DrawOp("line"), DrawOp("line"), DrawOp("line") >> THEN "menu"
  ELSE IF ops = << >> THEN "star"
  ELSE "default"

Keywords == << kw_home, kw_search, kw_menu, kw_star >>
KeywordKinds == << "home", "search", "menu", "star" >>

\* the glyph of the earliest keyword, in the order home, search, menu, star,
\* that occurs in s
FirstKeyword(s) ==
  IF \E k \in 1..Len(Keywords) : Contains(s, Keywords[k])
  THEN KeywordKinds[CHOOSE k \in 1..Len(Keywords) :
                      /\ Contains(s, Keywords[k])
                      /\ \A j \in 1..(k - 1) : ~Contains(s, Keywords[j])]
  ELSE "default"

\* C8 as claimed: the glyph is that of the earliest keyword that occurs in
\* the name with letter case ignored.
C8_CaseInsensitive ==
  pc = "returned" =>
    GlyphKind(fs[ClaimPath(icon_list[1])].ops) = FirstKeyword(Lower(icon_list[1]))

\* C8, amended: the keywords are matched as written, in lower case: the
\* glyph is that of the earliest keyword, in the order home, search, menu,
\* star, that occurs in the name exactly; a name that holds a keyword only
\* in another letter case gets the default text (or rectangle) glyph.
C8_CaseSensitive ==
  pc = "returned" =>
    /\ GlyphKind(fs[ClaimPath(icon_list[1])].ops) = FirstKeyword(icon_list[1])
    /\ fs[ClaimPath(icon_list[1])].origin = "placeholder"

\* a name that holds two keywords, 'star' before 'menu', got the glyph of
\* 'menu', the earlier of the two in the order of the tests
C8_Witness ==
  /\ pc = "returned"
  /\ icon_list[1] = << "s","t","a","r","m","e","n","u" >>
  /\ GlyphKind(fs[ClaimPath(icon_list[1])].ops) = "menu"

=============================================================================
